---- MODULE Spec2Model ----
(***************************************************************************)
(* Alert lifecycle of the Neovance backend (src/backend/main.py).          *)
(*                                                                         *)
(* The state is the `alerts` table, the background tick-driver threads of  *)
(* IntegratedNICUSimulator with their open database sessions, the HIL      *)
(* request handlers (predict_sepsis, log_doctor_action, log_outcome) with  *)
(* the row each has loaded but not yet committed, and the wall clock.      *)
(* `succession` is a history variable: it records, per monitored patient,  *)
(* whether the last operations on the patient's alerts were one whole      *)
(* evaluation that created an alert, followed by a second evaluation.      *)
(*                                                                         *)
(* Units.  Timestamps and durations are in hours.  The clock is observed   *)
(* at the instants now * StepHours; datetime.utcnow() never hands the same *)
(* value to two rows, so every action that stores a timestamp uses the     *)
(* current instant and moves the clock on to the next.  A severity score   *)
(* is held in hundredths (7.5 is 750), a risk score in ten-thousandths     *)
(* (0.75 is 7500).                                                         *)
(*                                                                         *)
(* The vital-sign generators (RealisticVitalGenerator) carry the clinical  *)
(* state of each patient; the model keeps the state, the onset time, the   *)
(* elapsed-time counters and the sepsis profile, not the vitals.  Their    *)
(* clock, `minutes`, is observed every MinutesPerStep minutes, since the   *)
(* generators count minutes where the alert timers count hours.  SimSpec   *)
(* is the simulation control surface, GenSpec the generator's tick taken   *)
(* alone, LiveSpec the alert lifecycle with a clinician who attends to     *)
(* every alert shown, and OrchSpec the real-time orchestrator of           *)
(* src/realtime_ml_orchestrator.py.                                        *)
(*                                                                         *)
(* EtlSpec is the risk_monitor table of src/etl.py with its live standard  *)
(* deviations and ScoreSpec the deviation risk score over sample tables;   *)
(* EosSpec holds the two EOS risk calculators; VitalsSpec adds to the      *)
(* generators the measurement a tick returns, from channel values before   *)
(* the physiological bounds; ScriptSpec is the generator of                *)
(* src/scripts/realistic_vitals_generator.py; StartSpec is the tick driver *)
(* from the startup event on, with room for a thread that a stop left      *)
(* behind.                                                                 *)
(***************************************************************************)
EXTENDS Integers, Sequences, FiniteSets, TLC

(* ---------------------------------------------------------------- bounds *)
MaxTime == 4
MaxAlerts == 2
MaxThreads == 1
MaxMinutes == 4
MaxSeconds == 4
MaxActiveAlerts == 2
MaxRows == 2
ScoreMinute == 2

(* ------------------------------------------------------ program constants *)
AlertThreshold == 750
HighRiskThreshold == 7500
ReEscalationHours == 4
DefaultSilenceHours == 1
SepticAfterMinutes == 45
alert_cooldown == 300
ModerateRisk == 2000
ROLLING_WINDOW_MINUTES == 60
DaysPerWeek == 7
baseline_risk == 50000
MaxRisk == 5000000
MinutesPerDay == 1440
EpochMinuteOfDay == 1410

(* One clock step: the clock is sampled once per re-escalation window.    *)
StepHours == ReEscalationHours

(* One step of the generator's clock: a third of the time to SEPTIC.      *)
MinutesPerStep == SepticAfterMinutes \div 3

(* ------------------------------------------------------------ input sets *)
PatientOrder == <<"B001", "B002">>
BabyIds == {"B001", "B002"}
WindowInputs == {30, ROLLING_WINDOW_MINUTES}
MrnInputs == {"B001", "B002", "B999"}
SeverityScores == {400, 750, 900}
ClassifierRisks == {7500, 9000}
DoctorIds == {"DR001"}
ActionTypes == {"OBSERVATION"}
None == <<>>
Some(v) == <<v>>
DismissDurations == {None, Some(0), Some(1), Some(4)}
Threads == 1..MaxThreads
(* Mutant: the lookup of the alerting block overlooks PENDING alerts.     *)
OpenStatusesWithoutPending == {"ACTION_TAKEN", "DISMISSED"}

OpenStatuses == {"PENDING_DOCTOR_ACTION", "ACTION_TAKEN", "DISMISSED"}

VARIABLES now, alerts, simulation_active, simulation_thread, threads,
          action_req, response, succession,
          generators, minutes, status_reply,
          last_predictions, active_alerts, seconds,
          risk_monitor, live_sd, etl_risk, eos_reply,
          new_vitals, script_generator, startup_done

(* The alert side and the vital-sign generator side of the state.         *)
alertVars == <<now, alerts, simulation_active, simulation_thread, threads,
               action_req, response, succession>>
simVars == <<generators, minutes, status_reply>>
orchVars == <<last_predictions, active_alerts, seconds>>
(* The ETL pipeline's table and results, the EOS calculators' result, the  *)
(* measurement a generator emits, the generator of src/scripts, and the    *)
(* mark of the application's startup event.                                *)
scorerVars == <<risk_monitor, live_sd, etl_risk, eos_reply>>
emitVars == <<new_vitals, script_generator>>
sideVars == <<scorerVars, emitVars, startup_done>>

vars == <<now, alerts, simulation_active, simulation_thread, threads,
          action_req, response, succession, generators, minutes, status_reply,
          last_predictions, active_alerts, seconds,
          risk_monitor, live_sd, etl_risk, eos_reply,
          new_vitals, script_generator, startup_done>>

(* ------------------------------------------------------------- helpers *)
(* Python truthiness of an Optional[int]: None and 0 are both false.      *)
Truthy(d) == d # None /\ d[1] # 0

(* datetime.utcnow(), in hours *)
utcnow == now * StepHours

risk_to_hours(risk_score) ==
    IF risk_score < 3000 THEN 48
    ELSE IF risk_score < 6000 THEN 24
    ELSE IF risk_score < 8000 THEN 12
    ELSE 6

(* float(assessment['severity_score'] / 10.0) *)
ModelRiskScore(severity_score) == severity_score * 10

(* A freshly constructed Alert row: every column the constructor is not   *)
(* given is NULL.                                                         *)
Alert(baby, ts, risk) ==
    [ baby_id           |-> baby,
      timestamp         |-> ts,
      model_risk_score  |-> risk,
      onset_window_hrs  |-> risk_to_hours(risk),
      alert_status      |-> "PENDING_DOCTOR_ACTION",
      doctor_id         |-> None,
      doctor_action     |-> None,
      dismiss_duration  |-> None,
      action_timestamp  |-> None,
      sepsis_confirmed  |-> None,
      outcome_timestamp |-> None,
      reward_signal     |-> None,
      model_status      |-> None ]

AlertIds == 1..Len(alerts)

RECURSIVE SumLen(_)
SumLen(S) == IF S = {} THEN 0
             ELSE LET t == CHOOSE x \in S : TRUE
                  IN Len(threads[t].session) + SumLen(S \ {t})

(* Rows committed or waiting in some session: the cap on the table size.  *)
RowsInUse == Len(alerts) + SumLen(DOMAIN threads)

(* db.query(Alert).filter(baby_id == mrn, alert_status in open)           *)
(*   .order_by(desc(Alert.timestamp)).first(); 0 stands for None.         *)
ExistingAlert(mrn) ==
    LET S == {i \in AlertIds : /\ alerts[i].baby_id = mrn
                               /\ alerts[i].alert_status \in OpenStatuses}
    IN IF S = {} THEN 0
       ELSE CHOOSE i \in S : \A j \in S : alerts[j].timestamp <= alerts[i].timestamp

(* Mutant: the silence of a dismissal ends at, not after, its last hour.  *)
ShouldCreateAlertAtSilenceEnd(mrn, t) ==
    LET e == ExistingAlert(mrn) IN
    IF e = 0 THEN TRUE
    ELSE IF alerts[e].alert_status = "DISMISSED"
         THEN LET silence_hours == IF Truthy(alerts[e].dismiss_duration)
                                   THEN alerts[e].dismiss_duration[1]
                                   ELSE DefaultSilenceHours
              IN t >= alerts[e].action_timestamp[1] + silence_hours
    ELSE IF alerts[e].alert_status = "ACTION_TAKEN"
         THEN t > alerts[e].action_timestamp[1] + ReEscalationHours
    ELSE FALSE

(* Mutant: re-escalation is due at, not after, the end of the window.     *)
ShouldCreateAlertAtWindowEnd(mrn, t) ==
    LET e == ExistingAlert(mrn) IN
    IF e = 0 THEN TRUE
    ELSE IF alerts[e].alert_status = "DISMISSED"
         THEN LET silence_hours == IF Truthy(alerts[e].dismiss_duration)
                                   THEN alerts[e].dismiss_duration[1]
                                   ELSE DefaultSilenceHours
              IN t > alerts[e].action_timestamp[1] + silence_hours
    ELSE IF alerts[e].alert_status = "ACTION_TAKEN"
         THEN t >= alerts[e].action_timestamp[1] + ReEscalationHours
    ELSE FALSE

(* Mutant: an alert that was acted on is never followed up.               *)
ShouldCreateAlertNoReEscalation(mrn, t) ==
    LET e == ExistingAlert(mrn) IN
    IF e = 0 THEN TRUE
    ELSE IF alerts[e].alert_status = "DISMISSED"
         THEN LET silence_hours == IF Truthy(alerts[e].dismiss_duration)
                                   THEN alerts[e].dismiss_duration[1]
                                   ELSE DefaultSilenceHours
              IN t > alerts[e].action_timestamp[1] + silence_hours
    ELSE FALSE

(* The decision of the alerting block for one patient at time t.          *)
ShouldCreateAlert(mrn, t) ==
    LET e == ExistingAlert(mrn) IN
    IF e = 0 THEN TRUE
    ELSE IF alerts[e].alert_status = "DISMISSED"
         THEN LET silence_hours == IF Truthy(alerts[e].dismiss_duration)
                                   THEN alerts[e].dismiss_duration[1]
                                   ELSE DefaultSilenceHours
              IN t > alerts[e].action_timestamp[1] + silence_hours
    ELSE IF alerts[e].alert_status = "ACTION_TAKEN"
         THEN t > alerts[e].action_timestamp[1] + ReEscalationHours
    ELSE FALSE

(* The UPDATE a session flushes writes only the columns whose value       *)
(* differs from the value that was loaded.                                *)
WriteChanged(cur, loaded, new) ==
    [f \in DOMAIN cur |-> IF new[f] # loaded[f] THEN new[f] ELSE cur[f]]

(* Mutant: the row a pass adds replaces the patient's open alert.         *)
FlushedOverExisting(t) ==
    IF threads[t].session = <<>> THEN alerts
    ELSE LET r == threads[t].session[1]
             e == ExistingAlert(r.baby_id)
         IN IF e = 0 THEN alerts \o threads[t].session
            ELSE [alerts EXCEPT ![e] = r]

(* What the table holds once thread t's session is flushed.               *)
Flushed(t) == alerts \o threads[t].session

NoThread == [pc |-> "none", idx |-> 0, session |-> <<>>]

(* Mutant: the status check of log_doctor_action lets every alert pass.   *)
ActionAllowedAlways(alert_status) == TRUE

(* alert.alert_status in ['PENDING_DOCTOR_ACTION', 'ACTION_TAKEN'] *)
ActionAllowed(alert_status) == alert_status \in {"PENDING_DOCTOR_ACTION", "ACTION_TAKEN"}

(* ------------------------------------------------------ history variable *)
TickPatients == {PatientOrder[k] : k \in 1..Len(PatientOrder)}
Idle == [phase |-> "none", thread |-> 0, created |-> FALSE]

(* An operation other than the evaluation under way touched baby's alerts. *)
Touch(baby) == succession' = [b \in TickPatients |-> IF b = baby THEN Idle ELSE succession[b]]

SessionHas(t, baby) == \E k \in 1..Len(threads[t].session) : threads[t].session[k].baby_id = baby

(* ------------------------------------------------- vital-sign generator *)
(* datetime.now(), in minutes.                                            *)
datetime_now == minutes * MinutesPerStep

ClinicalState == {"STABLE", "DETERIORATING", "SEPTIC", "RECOVERING"}
SepsisProfiles == {"fever", "hypothermia"}

(* RealisticVitalGenerator.__init__: the clinical state of a new generator. *)
RealisticVitalGenerator ==
    [ state             |-> "STABLE",
      sepsis_onset_time |-> None,
      time_since_onset  |-> 0,
      sepsis_minutes    |-> 0,
      sepsis_profile    |-> None ]

trigger_sepsis(g, profile) ==
    [g EXCEPT !.state = "DETERIORATING",
              !.sepsis_onset_time = Some(datetime_now),
              !.time_since_onset = 0,
              !.sepsis_minutes = 0,
              !.sepsis_profile = Some(profile)]

reset_to_normal(g) ==
    [g EXCEPT !.state = "STABLE",
              !.sepsis_onset_time = None,
              !.time_since_onset = 0]

(* generate_next_vitals turning SEPTIC at the threshold already.          *)
generate_next_vitals_at_threshold(g) ==
    IF g.sepsis_onset_time # None
    THEN LET elapsed == datetime_now - g.sepsis_onset_time[1]
         IN [g EXCEPT !.time_since_onset = elapsed,
                      !.sepsis_minutes = elapsed,
                      !.state = IF elapsed >= SepticAfterMinutes THEN "SEPTIC" ELSE @]
    ELSE g

(* The clinical-state part of generate_next_vitals: with an onset set the *)
(* elapsed time is refreshed and past SepticAfterMinutes the state is     *)
(* SEPTIC; no other branch assigns the state.                             *)
generate_next_vitals(g) ==
    IF g.sepsis_onset_time # None
    THEN LET elapsed == datetime_now - g.sepsis_onset_time[1]
         IN [g EXCEPT !.time_since_onset = elapsed,
                      !.sepsis_minutes = elapsed,
                      !.state = IF elapsed > SepticAfterMinutes THEN "SEPTIC" ELSE @]
    ELSE g

(* RealisticVitalGenerator of src/scripts/realistic_vitals_generator.py   *)
(* as constructed; pattern is the temperature target that the last tick   *)
(* of the running episode drew, None before the first such tick.          *)
ScriptVitalGenerator ==
    [ state |-> "STABLE", sepsis_onset_time |-> None, time_since_onset |-> 0,
      pattern |-> None ]

(* What get_simulation_status reports of one generator.                   *)
PatientState(g) ==
    [ state       |-> g.state,
      sepsis_time |-> IF g.sepsis_onset_time # None THEN g.time_since_onset ELSE 0 ]

(* ---------------------------------------------------------------- Init *)
Init ==
    /\ now = 0
    /\ alerts = <<>>
    /\ simulation_active = TRUE
    /\ simulation_thread = 0
    /\ threads = [t \in Threads |-> NoThread]
    /\ action_req = None
    /\ response = [code |-> 0, detail |-> ""]
    /\ succession = [b \in TickPatients |-> Idle]
    /\ generators = [mrn \in TickPatients |-> RealisticVitalGenerator]
    /\ minutes = 0
    /\ status_reply = None
    /\ last_predictions = [mrn \in BabyIds |-> None]
    /\ active_alerts = <<>>
    /\ seconds = 0
    /\ risk_monitor = <<>>
    /\ live_sd = None
    /\ etl_risk = None
    /\ eos_reply = None
    /\ new_vitals = None
    /\ script_generator = [mrn \in TickPatients |-> ScriptVitalGenerator]
    /\ startup_done = FALSE

(* ------------------------------------------------------- tick driver *)
start_background_simulation ==
    /\ IF ~simulation_active
       THEN \E t \in DOMAIN threads :
              /\ threads[t].pc = "none"
              /\ simulation_active' = TRUE
              /\ threads' = [threads EXCEPT ![t] = [pc |-> "head", idx |-> 0, session |-> <<>>]]
              /\ simulation_thread' = t
       ELSE UNCHANGED <<simulation_active, threads, simulation_thread>>
    /\ UNCHANGED <<now, alerts, action_req, response, succession>>
    /\ UNCHANGED <<simVars, orchVars, sideVars>>

(* The flag is cleared and the thread is joined for at most five seconds: *)
(* the thread leaves at its next LoopHead, which with a long pass or an   *)
(* interval_seconds above five comes after the handler has returned.      *)
stop_background_simulation ==
    /\ simulation_active' = FALSE
    /\ UNCHANGED <<now, alerts, simulation_thread, threads, action_req, response, succession>>
    /\ UNCHANGED <<simVars, orchVars, sideVars>>

(* The loop head without its test of simulation_active.                   *)
LoopHeadIgnoringStop(t) ==
    /\ threads[t].pc = "head"
    /\ threads' = [threads EXCEPT ![t] = [pc |-> "entity", idx |-> 1, session |-> <<>>]]
    /\ UNCHANGED <<now, alerts, simulation_active, simulation_thread, action_req, response, succession>>
    /\ UNCHANGED <<simVars, orchVars, sideVars>>

(* while self.simulation_active: ... db = SessionLocal()                  *)
LoopHead(t) ==
    /\ threads[t].pc = "head"
    /\ IF simulation_active
       THEN threads' = [threads EXCEPT ![t] = [pc |-> "entity", idx |-> 1, session |-> <<>>]]
       ELSE threads' = [threads EXCEPT ![t] = NoThread]
    /\ UNCHANGED <<now, alerts, simulation_active, simulation_thread, action_req, response, succession>>
    /\ UNCHANGED <<simVars, orchVars, sideVars>>

(* One iteration of the for-loop: the generator's reading is assessed     *)
(* with severity_score, and the alerting block runs.                      *)
TickEntity(t, severity_score) ==
    /\ threads[t].pc = "entity"
    /\ LET mrn == PatientOrder[threads[t].idx]
           create == severity_score >= AlertThreshold /\ ShouldCreateAlert(mrn, utcnow)
           next_pc == IF threads[t].idx = Len(PatientOrder) THEN "commit" ELSE "entity"
       IN /\ IF create
             THEN /\ RowsInUse < MaxAlerts
                  /\ now < MaxTime
                  /\ threads' = [threads EXCEPT ![t] =
                        [pc |-> next_pc, idx |-> @.idx + 1,
                         session |-> Append(@.session,
                                            Alert(mrn, utcnow, ModelRiskScore(severity_score)))]]
                  /\ now' = now + 1
             ELSE /\ threads' = [threads EXCEPT ![t] =
                        [pc |-> next_pc, idx |-> @.idx + 1, session |-> @.session]]
                  /\ now' = now
          /\ succession' = [succession EXCEPT ![mrn] =
                IF severity_score >= AlertThreshold /\ @.phase = "first_done"
                THEN [phase |-> "second_read", thread |-> t, created |-> create]
                ELSE IF create
                THEN [phase |-> "first_read", thread |-> t, created |-> TRUE]
                ELSE Idle]
          /\ generators' = [generators EXCEPT ![mrn] = generate_next_vitals(@)]
    /\ UNCHANGED <<alerts, simulation_active, simulation_thread, action_req, response,
                   minutes, status_reply>>
    /\ UNCHANGED <<orchVars, sideVars>>

(* db.commit(); db.close(); time.sleep(interval_seconds)                  *)
TickCommit(t) ==
    /\ threads[t].pc = "commit"
    /\ alerts' = Flushed(t)
    /\ threads' = [threads EXCEPT ![t] = [pc |-> "head", idx |-> 0, session |-> <<>>]]
    /\ succession' = [b \in TickPatients |->
          IF succession[b].phase = "first_read" /\ succession[b].thread = t
          THEN [succession[b] EXCEPT !.phase = "first_done"]
          ELSE IF SessionHas(t, b) THEN Idle
          ELSE succession[b]]
    /\ UNCHANGED <<now, simulation_active, simulation_thread, action_req, response>>
    /\ UNCHANGED <<simVars, orchVars, sideVars>>

(* except Exception: the pass is abandoned with its session uncommitted.  *)
TickException(t) ==
    /\ threads[t].pc \in {"entity", "commit"}
    /\ threads' = [threads EXCEPT ![t] = [pc |-> "head", idx |-> 0, session |-> <<>>]]
    /\ succession' = [b \in TickPatients |->
          IF succession[b].phase = "first_read" /\ succession[b].thread = t
          THEN Idle ELSE succession[b]]
    /\ UNCHANGED <<now, alerts, simulation_active, simulation_thread, action_req, response>>
    /\ UNCHANGED <<simVars, orchVars, sideVars>>

(* ------------------------------------------------------------ handlers *)
(* predict_sepsis with the classifier returning risk_score.               *)
predict_sepsis(baby, risk_score) ==
    /\ IF risk_score > HighRiskThreshold
       THEN /\ RowsInUse < MaxAlerts
            /\ now < MaxTime
            /\ alerts' = Append(alerts, Alert(baby, utcnow, risk_score))
            /\ now' = now + 1
            /\ Touch(baby)
       ELSE /\ UNCHANGED <<alerts, now, succession>>
    /\ UNCHANGED <<simulation_active, simulation_thread, threads, action_req, response>>
    /\ UNCHANGED <<simVars, orchVars, sideVars>>

(* log_doctor_action up to db.commit(): the row is loaded, checked and    *)
(* changed in the session.                                                *)
log_doctor_action(alert_id, doctor, action_type, dismiss) ==
    /\ action_req = None
    /\ IF alert_id \notin AlertIds
       THEN /\ response' = [code |-> 500, detail |-> "Error logging action: 404: Alert not found"]
            /\ UNCHANGED <<now, action_req, succession>>
       ELSE IF ~ActionAllowed(alerts[alert_id].alert_status)
       THEN /\ response' = [code |-> 500, detail |->
                   "Error logging action: 400: Action cannot be taken on this alert."]
            /\ UNCHANGED <<now, action_req, succession>>
       ELSE /\ now < MaxTime
            /\ action_req' = Some(
                 [alert_id |-> alert_id,
                  dismiss_duration |-> dismiss,
                  loaded   |-> alerts[alert_id],
                  new      |-> [alerts[alert_id] EXCEPT
                                  !.doctor_id = Some(doctor),
                                  !.doctor_action = Some(action_type),
                                  !.dismiss_duration = IF Truthy(dismiss) THEN dismiss ELSE @,
                                  !.alert_status = IF Truthy(dismiss) THEN "DISMISSED"
                                                   ELSE "ACTION_TAKEN",
                                  !.action_timestamp = Some(utcnow)]])
            /\ now' = now + 1
            /\ Touch(alerts[alert_id].baby_id)
            /\ UNCHANGED response
    /\ UNCHANGED <<alerts, simulation_active, simulation_thread, threads>>
    /\ UNCHANGED <<simVars, orchVars, sideVars>>

(* db.commit() of log_doctor_action and its 200 response.                 *)
log_doctor_action_commit ==
    /\ action_req # None
    /\ LET r == action_req[1] IN
       /\ alerts' = [alerts EXCEPT ![r.alert_id] = WriteChanged(@, r.loaded, r.new)]
       /\ response' = [code |-> 200, detail |-> alerts'[r.alert_id].alert_status]
       /\ Touch(r.loaded.baby_id)
    /\ action_req' = None
    /\ UNCHANGED <<now, simulation_active, simulation_thread, threads>>
    /\ UNCHANGED <<simVars, orchVars, sideVars>>

(* Mutant: the reward no longer depends on the confirmed outcome.         *)
RewardIgnoringOutcome(model_risk_score, final_outcome) ==
    IF model_risk_score > HighRiskThreshold THEN 1 ELSE -1

(* The reward of log_outcome: +1 when the high-risk classification of the *)
(* stored risk score and the confirmed outcome agree, -1 when they differ. *)
RewardSignal(model_risk_score, final_outcome) ==
    LET model_predicted_high_risk == model_risk_score > HighRiskThreshold
    IN IF \/ (model_predicted_high_risk /\ final_outcome)
          \/ (~model_predicted_high_risk /\ ~final_outcome)
       THEN 1 ELSE -1

(* log_outcome.  Its load and its commit are taken as one step: what it   *)
(* writes depends only on the request and on model_risk_score, which no   *)
(* request ever updates.                                                  *)
log_outcome(alert_id, final_outcome) ==
    /\ IF alert_id \notin AlertIds
       THEN /\ response' = [code |-> 500, detail |-> "Error logging outcome: 404: Alert not found"]
            /\ UNCHANGED <<now, alerts, succession>>
       ELSE /\ now < MaxTime
            /\ LET reward == RewardSignal(alerts[alert_id].model_risk_score, final_outcome)
               IN alerts' = [alerts EXCEPT ![alert_id] =
                               [@ EXCEPT
                                  !.sepsis_confirmed = Some(final_outcome),
                                  !.outcome_timestamp = Some(utcnow),
                                  !.alert_status = "CLOSED",
                                  !.reward_signal = Some(reward),
                                  !.model_status = IF reward = 1 THEN Some("SUCCESS")
                                                   ELSE Some("FAILURE")]]
            /\ now' = now + 1
            /\ response' = [code |-> 200, detail |-> "Outcome logged and reward calculated."]
            /\ Touch(alerts[alert_id].baby_id)
    /\ UNCHANGED <<simulation_active, simulation_thread, threads, action_req>>
    /\ UNCHANGED <<simVars, orchVars, sideVars>>

DatabaseFailure == [code |-> 500, detail |-> "Error logging outcome: database is locked"]

(* log_outcome when the query or the commit raises a database error: the  *)
(* except clause rolls back and answers 500 with the error's text.        *)
log_outcome_failure(alert_id) ==
    /\ response' = DatabaseFailure
    /\ UNCHANGED <<now, alerts, simulation_active, simulation_thread, threads,
                   action_req, succession>>
    /\ UNCHANGED <<simVars, orchVars, sideVars>>

(* A silence or re-escalation timer of an open alert has not yet run out. *)
TimerRunning ==
    \E i \in AlertIds :
      \/ /\ alerts[i].alert_status = "DISMISSED"
         /\ utcnow <= alerts[i].action_timestamp[1] + alerts[i].dismiss_duration[1]
      \/ /\ alerts[i].alert_status = "ACTION_TAKEN"
         /\ utcnow <= alerts[i].action_timestamp[1] + ReEscalationHours

(* Time passes with nothing happening.  The alert logic reads the clock   *)
(* only against a running timer, so idle time is modelled while one runs. *)
AdvanceClock ==
    /\ now < MaxTime
    /\ TimerRunning
    /\ now' = now + 1
    /\ UNCHANGED <<alerts, simulation_active, simulation_thread, threads,
                   action_req, response, succession>>
    /\ UNCHANGED <<simVars, orchVars, sideVars>>

Next ==
    \/ start_background_simulation
    \/ stop_background_simulation
    \/ \E t \in Threads : LoopHead(t)
    \/ \E t \in Threads : \E s \in SeverityScores : TickEntity(t, s)
    \/ \E t \in Threads : TickCommit(t)
    \/ \E t \in Threads : TickException(t)
    \/ \E b \in BabyIds : \E r \in ClassifierRisks : predict_sepsis(b, r)
    \/ \E i \in 0..MaxAlerts : \E d \in DoctorIds : \E a \in ActionTypes :
         \E dd \in DismissDurations : log_doctor_action(i, d, a, dd)
    \/ log_doctor_action_commit
    \/ \E i \in 0..MaxAlerts : \E o \in BOOLEAN : log_outcome(i, o)
    \/ \E i \in 0..MaxAlerts : log_outcome_failure(i)
    \/ AdvanceClock

Spec == Init /\ [][Next]_vars

(* ------------------------------------------- simulation control surface *)
(* POST /simulation/trigger-sepsis/{mrn}: an mrn that is not a patient    *)
(* makes IntegratedNICUSimulator.trigger_sepsis pick random_mrn instead.   *)
trigger_patient_sepsis(mrn, random_mrn, profile) ==
    /\ LET target == IF mrn \in TickPatients THEN mrn ELSE random_mrn
       IN generators' = [generators EXCEPT ![target] = trigger_sepsis(@, profile)]
    /\ UNCHANGED <<minutes, status_reply>>
    /\ UNCHANGED <<alertVars, orchVars, sideVars>>

(* POST /simulation/reset-patient/{mrn} *)
reset_simulation_patient(mrn) ==
    /\ IF mrn \in TickPatients
       THEN generators' = [generators EXCEPT ![mrn] = reset_to_normal(@)]
       ELSE UNCHANGED generators
    /\ UNCHANGED <<minutes, status_reply>>
    /\ UNCHANGED <<alertVars, orchVars, sideVars>>

(* GET /simulation/status *)
get_simulation_status ==
    /\ status_reply' = Some([mrn \in TickPatients |-> PatientState(generators[mrn])])
    /\ UNCHANGED <<generators, minutes>>
    /\ UNCHANGED <<alertVars, orchVars, sideVars>>

(* GET /simulation/live-data: generate_single_reading steps every         *)
(* generator once.                                                        *)
generate_single_reading ==
    /\ generators' = [mrn \in TickPatients |-> generate_next_vitals(generators[mrn])]
    /\ UNCHANGED <<minutes, status_reply>>
    /\ UNCHANGED <<alertVars, orchVars, sideVars>>

(* A quarter of an hour passes.                                           *)
MinutesPass ==
    /\ minutes < MaxMinutes
    /\ minutes' = minutes + 1
    /\ UNCHANGED <<generators, status_reply>>
    /\ UNCHANGED <<alertVars, orchVars, sideVars>>

SimNext ==
    \/ \E mrn \in MrnInputs : \E random_mrn \in TickPatients : \E p \in SepsisProfiles :
         trigger_patient_sepsis(mrn, random_mrn, p)
    \/ \E mrn \in MrnInputs : reset_simulation_patient(mrn)
    \/ get_simulation_status
    \/ generate_single_reading
    \/ MinutesPass

(* The generators under the simulation control surface.                   *)
SimSpec == Init /\ [][SimNext]_vars

(* ------------------------------------------ real-time ML orchestrator *)
(* src/realtime_ml_orchestrator.py: rows of the vitals stream that cross  *)
(* a critical threshold are sent to the prediction service, and a         *)
(* prediction of moderate risk or more is appended to the alerts file.    *)
(* Temperatures are in tenths of a degree, risk scores in 1/10000; the    *)
(* orchestrator's clock, seconds, moves in steps of SecondsPerStep.       *)
CRITICAL_THRESHOLDS ==
    [ hr_high |-> 180, hr_low |-> 80, spo2_low |-> 90, temp_high |-> 385,
      temp_low |-> 360, map_low |-> 25, rr_high |-> 50 ]

SecondsPerStep == alert_cooldown \div 2

timestamp_now == seconds * SecondsPerStep

(* Rows of the stream: a normal reading and a tachycardic one.            *)
StreamRows ==
    [ mrn : BabyIds, hr : {120, 180}, spo2 : {97}, temp : {370}, map : {40}, rr : {25} ]

(* What requests.post can come to: an exception of the requests library,  *)
(* or a response with a status code and, with 200, a risk score.          *)
ApiReplies ==
    { [kind |-> "RequestException", status_code |-> 0, risk_score |-> 0],
      [kind |-> "response", status_code |-> 500, risk_score |-> 0],
      [kind |-> "response", status_code |-> 200, risk_score |-> 1000],
      [kind |-> "response", status_code |-> 200, risk_score |-> 9000] }

check_critical_thresholds(row) ==
    \/ row.hr >= CRITICAL_THRESHOLDS.hr_high
    \/ row.hr <= CRITICAL_THRESHOLDS.hr_low
    \/ row.spo2 <= CRITICAL_THRESHOLDS.spo2_low
    \/ row.temp >= CRITICAL_THRESHOLDS.temp_high
    \/ row.temp <= CRITICAL_THRESHOLDS.temp_low
    \/ row.map <= CRITICAL_THRESHOLDS.map_low
    \/ row.rr >= CRITICAL_THRESHOLDS.rr_high

(* The answer of should_trigger_prediction; when it is TRUE the call has  *)
(* also stamped last_predictions[mrn].                                    *)
should_trigger_prediction(mrn) ==
    ~ ( /\ last_predictions[mrn] # None
        /\ timestamp_now - last_predictions[mrn][1] < alert_cooldown )

(* The prediction, or None for an exception or a status other than 200.   *)
call_ml_prediction_api(patient_data, reply) ==
    IF reply.kind = "response" /\ reply.status_code = 200
    THEN Some([mrn |-> patient_data.mrn, risk_score |-> reply.risk_score])
    ELSE None

process_critical_patient(row, reply) ==
    /\ IF ~should_trigger_prediction(row.mrn)
       THEN UNCHANGED <<last_predictions, active_alerts>>
       ELSE /\ last_predictions' = [last_predictions EXCEPT ![row.mrn] = Some(timestamp_now)]
            /\ LET prediction == call_ml_prediction_api(row, reply)
               IN IF prediction = None
                  THEN UNCHANGED active_alerts
                  ELSE IF prediction[1].risk_score >= ModerateRisk
                  THEN /\ Len(active_alerts) < MaxActiveAlerts
                       /\ active_alerts' = Append(active_alerts,
                              [timestamp |-> timestamp_now, mrn |-> prediction[1].mrn,
                               risk_score |-> prediction[1].risk_score])
                  ELSE UNCHANGED active_alerts
    /\ UNCHANGED seconds
    /\ UNCHANGED <<alertVars, simVars, sideVars>>

(* The subscriber of the critical stream: rows that pass the filter.      *)
ml_prediction_handler(row, reply) ==
    /\ check_critical_thresholds(row)
    /\ process_critical_patient(row, reply)

SecondsPass ==
    /\ seconds < MaxSeconds
    /\ seconds' = seconds + 1
    /\ UNCHANGED <<last_predictions, active_alerts>>
    /\ UNCHANGED <<alertVars, simVars, sideVars>>

OrchNext ==
    \/ \E row \in StreamRows : \E reply \in ApiReplies : ml_prediction_handler(row, reply)
    \/ SecondsPass

OrchSpec == Init /\ [][OrchNext]_vars

(* --------------------------------------------------- streaming ETL *)
(* src/etl.py (src/backend/etl_simple.py has the same two functions).     *)
(* Each channel is held in the unit in which its mean, its default        *)
(* standard deviation and the readings are whole numbers: hr, rr and map  *)
(* in units, spo2 in halves of a percent, temp in tenths of a degree.     *)
(* Weights are in halves, risk scores in hundredths.                      *)
Vitals == {"hr", "spo2", "rr", "temp", "map"}

RISK_PARAMS ==
    [ hr   |-> [mu |-> 145, weight |-> 2, power |-> 2],
      spo2 |-> [mu |-> 190, weight |-> 6, power |-> 4],
      rr   |-> [mu |-> 50,  weight |-> 3, power |-> 2],
      temp |-> [mu |-> 370, weight |-> 2, power |-> 3],
      map  |-> [mu |-> 35,  weight |-> 4, power |-> 2] ]

DefaultSd == [hr |-> 15, spo2 |-> 5, rr |-> 10, temp |-> 5, map |-> 5]

PatientIds == {"Baby_A", "Baby_B"}

(* Rows of data/stream.csv; their timestamps are taken to be distinct, so *)
(* INSERT OR IGNORE ignores none.                                         *)
EtlRows ==
    [ patient_id : PatientIds, hr : {115, 175}, spo2 : {190}, rr : {50},
      temp : {370}, map : {35} ]

(* The clock of the pipeline is the minute clock; minute 0 lies           *)
(* EpochMinuteOfDay minutes into a day, local time being UTC.             *)
DateOf(t) == (EpochMinuteOfDay + t) \div MinutesPerDay

(* created_at >= ? as SQLite compares the two texts: created_at is        *)
(* 'YYYY-MM-DD HH:MM:SS' (CURRENT_TIMESTAMP), the cutoff an isoformat()   *)
(* 'YYYY-MM-DDTHH:MM:SS.ffffff'; on equal dates the blank sorts before    *)
(* the 'T'.                                                               *)
CreatedAtNotBefore(created_at, cutoff_time) == DateOf(created_at) > DateOf(cutoff_time)

(* cursor.fetchall() of the window query.                                 *)
FetchRows(patient_id, window_minutes) ==
    SelectSeq(risk_monitor,
              LAMBDA r : /\ r.patient_id = patient_id
                         /\ CreatedAtNotBefore(r.created_at, datetime_now - window_minutes))

RECURSIVE SumOf(_, _), SumSquares(_, _)
SumOf(rows, v) == IF rows = <<>> THEN 0 ELSE Head(rows)[v] + SumOf(Tail(rows), v)
SumSquares(rows, v) ==
    IF rows = <<>> THEN 0 ELSE Head(rows)[v] * Head(rows)[v] + SumSquares(Tail(rows), v)

(* np.std of a column to the nearest unit of the channel, and not zero    *)
(* unless the samples are all equal.                                      *)
np_std(rows, v) ==
    LET n == Len(rows)
        V == n * SumSquares(rows, v) - SumOf(rows, v) * SumOf(rows, v)
        r == CHOOSE x \in 0..SumOf(rows, v) :
               /\ 4 * V < (2 * x + 1) * (2 * x + 1) * n * n
               /\ x = 0 \/ (2 * x - 1) * (2 * x - 1) * n * n <= 4 * V
    IN IF V = 0 THEN 0 ELSE IF r = 0 THEN 1 ELSE r

(* The statistics with neither the test for two rows nor the fallback of  *)
(* a zero deviation.                                                      *)
get_live_statistics_unguarded(patient_id, window_minutes, db_ok) ==
    LET rows == FetchRows(patient_id, window_minutes)
    IN IF ~db_ok \/ rows = <<>> THEN DefaultSd
       ELSE [v \in Vitals |-> np_std(rows, v)]

(* get_live_statistics; db_ok is FALSE when sqlite3 raises.               *)
get_live_statistics(patient_id, window_minutes, db_ok) ==
    LET rows == FetchRows(patient_id, window_minutes)
    IN IF ~db_ok THEN DefaultSd
       ELSE IF Len(rows) < 2 THEN DefaultSd
       ELSE [v \in Vitals |-> IF np_std(rows, v) # 0 THEN np_std(rows, v) ELSE DefaultSd[v]]

RECURSIVE Power(_, _)
Power(x, p) == IF p = 0 THEN 1 ELSE x * Power(x, p - 1)

RECURSIVE GCD(_, _)
GCD(a, b) == IF b = 0 THEN a ELSE GCD(b, a % b)
LCM(a, b) == (a \div GCD(a, b)) * b

(* abs(vital_value - mu) without the abs.                                 *)
SignedDeviation(vital_value, mu) == vital_value - mu

Deviation(vital_value, mu) ==
    IF vital_value >= mu THEN vital_value - mu ELSE mu - vital_value

(* round(x, 2) of the fraction num / den, in hundredths, ties to even.    *)
Round2(num, den) ==
    LET whole == num \div den
        rest  == 100 * (num % den)
        q     == rest \div den
        twice == 2 * (rest % den)
        up    == twice > den \/ (twice = den /\ q % 2 = 1)
    IN 100 * whole + q + (IF up THEN 1 ELSE 0)

(* Sum of weight * (deviation / sd) ** power over the channels, as one    *)
(* fraction over the least common denominator, then rounded.              *)
RiskTotal(vitals, sd) ==
    LET den(v) == Power(sd[v], RISK_PARAMS[v].power)
        D == LCM(den("hr"), LCM(den("spo2"), LCM(den("rr"), LCM(den("temp"), den("map")))))
        component(v) ==
            RISK_PARAMS[v].weight
              * Power(Deviation(vitals[v], RISK_PARAMS[v].mu), RISK_PARAMS[v].power)
              * (D \div den(v))
        N == component("hr") + component("spo2") + component("rr")
               + component("temp") + component("map")
    IN Round2(N, 2 * D)

(* Readings handed to calculate_risk_score.                               *)
ScoreInputs ==
    [ hr : {130, 145, 160, 180}, spo2 : {190, 184, 178}, rr : {50, 70},
      temp : {360, 370, 385}, map : {35, 25} ]

write_to_sqlite(row) ==
    /\ Len(risk_monitor) < MaxRows
    /\ risk_monitor' = Append(risk_monitor,
          [patient_id |-> row.patient_id, created_at |-> datetime_now, hr |-> row.hr,
           spo2 |-> row.spo2, rr |-> row.rr, temp |-> row.temp, map |-> row.map])
    /\ UNCHANGED <<live_sd, etl_risk, eos_reply>>
    /\ UNCHANGED <<alertVars, simVars, orchVars, emitVars, startup_done>>

(* A call of get_live_statistics; n_rows is len(rows) of the call.        *)
live_statistics(patient_id, window_minutes, db_ok) ==
    /\ live_sd' = Some([patient_id |-> patient_id,
                        n_rows |-> IF db_ok THEN Len(FetchRows(patient_id, window_minutes)) ELSE 0,
                        db_ok |-> db_ok,
                        sd |-> get_live_statistics(patient_id, window_minutes, db_ok)])
    /\ UNCHANGED <<risk_monitor, etl_risk, eos_reply>>
    /\ UNCHANGED <<alertVars, simVars, orchVars, emitVars, startup_done>>

calculate_risk_score(vitals, patient_id, db_ok) ==
    /\ LET sd == get_live_statistics(patient_id, ROLLING_WINDOW_MINUTES, db_ok)
       IN etl_risk' = Some([vitals |-> vitals, live_sd |-> sd, risk_total |-> RiskTotal(vitals, sd)])
    /\ UNCHANGED <<risk_monitor, live_sd, eos_reply>>
    /\ UNCHANGED <<alertVars, simVars, orchVars, emitVars, startup_done>>

EtlNext ==
    \/ \E row \in EtlRows : write_to_sqlite(row)
    \/ \E p \in PatientIds : \E w \in WindowInputs : \E ok \in BOOLEAN : live_statistics(p, w, ok)
    \/ MinutesPass

(* The table as the pipeline fills it, and the statistics taken from it.  *)
EtlSpec == Init /\ [][EtlNext]_vars

(* Tables at the minute ScoreMinute, their rows written at that minute:   *)
(* no row, two equal readings, two different readings, and a row of the   *)
(* other patient.                                                         *)
SampleRow(patient_id, hr) ==
    [patient_id |-> patient_id, created_at |-> ScoreMinute * MinutesPerStep, hr |-> hr,
     spo2 |-> 190, rr |-> 50, temp |-> 370, map |-> 35]

SampleTables ==
    { <<>>,
      <<SampleRow("Baby_A", 115), SampleRow("Baby_A", 115)>>,
      <<SampleRow("Baby_A", 115), SampleRow("Baby_A", 175)>>,
      <<SampleRow("Baby_A", 115), SampleRow("Baby_B", 175)>> }

ScoreInit ==
    /\ now = 0
    /\ alerts = <<>>
    /\ simulation_active = TRUE
    /\ simulation_thread = 0
    /\ threads = [t \in Threads |-> NoThread]
    /\ action_req = None
    /\ response = [code |-> 0, detail |-> ""]
    /\ succession = [b \in TickPatients |-> Idle]
    /\ generators = [mrn \in TickPatients |-> RealisticVitalGenerator]
    /\ minutes = ScoreMinute
    /\ status_reply = None
    /\ last_predictions = [mrn \in BabyIds |-> None]
    /\ active_alerts = <<>>
    /\ seconds = 0
    /\ risk_monitor \in SampleTables
    /\ live_sd = None
    /\ etl_risk = None
    /\ eos_reply = None
    /\ new_vitals = None
    /\ script_generator = [mrn \in TickPatients |-> ScriptVitalGenerator]
    /\ startup_done = FALSE

ScoreNext ==
    \E vitals \in ScoreInputs : \E p \in PatientIds : \E ok \in BOOLEAN :
      calculate_risk_score(vitals, p, ok)

(* calculate_risk_score applied to readings over a filled table.          *)
ScoreSpec == ScoreInit /\ [][ScoreNext]_vars

(* ------------------------------------------------ EOS risk calculators *)
(* calculate_eos_risk of src/backend/test_eos_calculator.py and           *)
(* src/backend/pathway_eos_simulator.py (the same code), and              *)
(* calculate_eos_risk_production of src/backend/sepsis_prediction_service *)
(* .py.  Risks are in 1/100000, factors and temperatures in tenths,       *)
(* gestational age in days.                                               *)

(* A gbs_status that is no string (None), on which .lower() raises.       *)
NotAString == "None"

EosInputs ==
    [ ga_weeks : {36, 38, 39}, ga_days : {0, 6}, temp_celsius : {370, 380},
      rom_hours : {8, 18, 24}, gbs_status : {"negative", "positive", "unknown", NotAString},
      antibiotic_type : {"none", "penicillin"}, clinical_exam : {"normal", "abnormal"} ]

PatientData ==
    [ ga_weeks : {34, 36, 38, 39}, ga_days : {0}, maternal_temp_celsius : {370, 380, 385},
      rom_hours : {8, 18, 24}, gbs_status : {"negative", "positive", "unknown", NotAString},
      antibiotic_type : {"none", "ampicillin"}, clinical_exam : {"normal", "chorioamnionitis"},
      temp_celsius : {370}, hr : {120, 160}, spo2 : {97} ]

(* ga_weeks + ga_days / 7.0, in days                                      *)
ga_decimal(d) == DaysPerWeek * d.ga_weeks + d.ga_days

(* The risk_factors list of calculate_eos_risk, in tenths.                *)
risk_factors(d) ==
    (IF ga_decimal(d) < 37 * DaysPerWeek THEN <<20>>
     ELSE IF ga_decimal(d) < 39 * DaysPerWeek THEN <<10>> ELSE <<>>)
    \o (IF d.temp_celsius >= 380 THEN <<30>> ELSE <<>>)
    \o (IF d.rom_hours > 18 THEN <<20>> ELSE <<>>)
    \o (IF d.gbs_status = "positive"
        THEN (IF d.antibiotic_type \in {"penicillin", "ampicillin"} THEN <<10>> ELSE <<40>>)
        ELSE IF d.gbs_status = "unknown" THEN <<15>> ELSE <<>>)
    \o (IF d.clinical_exam = "abnormal" THEN <<150>> ELSE <<>>)

(* The risk_factors list of calculate_eos_risk_production, in tenths.     *)
risk_factors_production(d) ==
    (IF ga_decimal(d) < 35 * DaysPerWeek THEN <<40>>
     ELSE IF ga_decimal(d) < 37 * DaysPerWeek THEN <<25>>
     ELSE IF ga_decimal(d) < 39 * DaysPerWeek THEN <<12>> ELSE <<>>)
    \o (IF d.maternal_temp_celsius >= 385 THEN <<50>>
        ELSE IF d.maternal_temp_celsius >= 380 THEN <<25>> ELSE <<>>)
    \o (IF d.rom_hours >= 24 THEN <<30>> ELSE IF d.rom_hours >= 18 THEN <<20>> ELSE <<>>)
    \o (IF d.gbs_status = "positive"
        THEN (IF d.antibiotic_type \in {"penicillin", "ampicillin"} THEN <<15>> ELSE <<60>>)
        ELSE IF d.gbs_status = "unknown" THEN <<20>> ELSE <<>>)
    \o (IF d.clinical_exam \in {"abnormal", "chorioamnionitis"} THEN <<200>> ELSE <<>>)
    \o (IF d.temp_celsius >= 380 \/ d.temp_celsius <= 360 THEN <<18>> ELSE <<>>)
    \o (IF d.hr >= 160 \/ d.hr <= 90 THEN <<13>> ELSE <<>>)
    \o (IF d.spo2 <= 92 THEN <<15>> ELSE <<>>)

(* total_risk *= factor over the list; the running value has at most four *)
(* decimals before each step, so the division is exact.                   *)
RECURSIVE total_risk(_, _)
total_risk(risk, factors) ==
    IF factors = <<>> THEN risk
    ELSE total_risk((risk \div 10) * Head(factors), Tail(factors))

(* min(total_risk, 50.0) with no upper limit.                             *)
Uncapped(risk) == risk

Capped(risk) == IF risk < MaxRisk THEN risk ELSE MaxRisk

(* round(x, digits), x in 1/100000 and step the weight of the last digit  *)
(* kept; ties go to the even digit.                                       *)
RoundTo(x, step) ==
    LET q == x \div step
        twice == 2 * (x % step)
        up == twice > step \/ (twice = step /\ q % 2 = 1)
    IN step * (q + (IF up THEN 1 ELSE 0))

calculate_eos_risk(d) ==
    /\ eos_reply' = Some([fn |-> "calculate_eos_risk", input |-> d,
                          risk |-> IF d.gbs_status = NotAString THEN baseline_risk
                                   ELSE RoundTo(Capped(total_risk(baseline_risk, risk_factors(d))),
                                                1000)])
    /\ UNCHANGED <<risk_monitor, live_sd, etl_risk>>
    /\ UNCHANGED <<alertVars, simVars, orchVars, emitVars, startup_done>>

calculate_eos_risk_production(d) ==
    /\ eos_reply' = Some([fn |-> "calculate_eos_risk_production", input |-> d,
                          risk |-> IF d.gbs_status = NotAString THEN baseline_risk
                                   ELSE RoundTo(Capped(total_risk(baseline_risk,
                                                                  risk_factors_production(d))),
                                                100)])
    /\ UNCHANGED <<risk_monitor, live_sd, etl_risk>>
    /\ UNCHANGED <<alertVars, simVars, orchVars, emitVars, startup_done>>

EosNext ==
    \/ \E d \in EosInputs : calculate_eos_risk(d)
    \/ \E d \in PatientData : calculate_eos_risk_production(d)

EosSpec == Init /\ [][EosNext]_vars

(* ------------------------------------------------ application startup *)
(* The thread objects the process can hold at once: the one of            *)
(* simulation_thread and one that a stop left behind.                     *)
DriverThreads == 1..(MaxThreads + 1)

(* startup_event: after the tables and the classifier are loaded it calls *)
(* nicu_simulator.start_background_simulation(interval_seconds=3).        *)
startup_event ==
    /\ ~startup_done
    /\ startup_done' = TRUE
    /\ IF ~simulation_active
       THEN \E t \in DOMAIN threads :
              /\ threads[t].pc = "none"
              /\ simulation_active' = TRUE
              /\ threads' = [threads EXCEPT ![t] = [pc |-> "head", idx |-> 0, session |-> <<>>]]
              /\ simulation_thread' = t
       ELSE UNCHANGED <<simulation_active, threads, simulation_thread>>
    /\ UNCHANGED <<now, alerts, action_req, response, succession>>
    /\ UNCHANGED <<simVars, orchVars, scorerVars, emitVars>>

(* The module as imported: nicu_simulator constructed and its flag set.   *)
StartInit ==
    /\ now = 0
    /\ alerts = <<>>
    /\ simulation_active = TRUE
    /\ simulation_thread = 0
    /\ threads = [t \in DriverThreads |-> NoThread]
    /\ action_req = None
    /\ response = [code |-> 0, detail |-> ""]
    /\ succession = [b \in TickPatients |-> Idle]
    /\ generators = [mrn \in TickPatients |-> RealisticVitalGenerator]
    /\ minutes = 0
    /\ status_reply = None
    /\ last_predictions = [mrn \in BabyIds |-> None]
    /\ active_alerts = <<>>
    /\ seconds = 0
    /\ risk_monitor = <<>>
    /\ live_sd = None
    /\ etl_risk = None
    /\ eos_reply = None
    /\ new_vitals = None
    /\ script_generator = [mrn \in TickPatients |-> ScriptVitalGenerator]
    /\ startup_done = FALSE

(* Requests are served once the startup event has run.                    *)
StartNext ==
    \/ startup_event
    \/ startup_done /\ start_background_simulation
    \/ startup_done /\ stop_background_simulation
    \/ \E t \in DriverThreads : LoopHead(t)
    \/ \E t \in DriverThreads : \E s \in SeverityScores : TickEntity(t, s)
    \/ \E t \in DriverThreads : TickCommit(t)
    \/ \E t \in DriverThreads : TickException(t)

StartSpec == StartInit /\ [][StartNext]_vars

(* ------------------------------------------- measurements of one tick *)
(* The PHYSIOLOGICAL BOUNDS of generate_next_vitals in main.py, in        *)
(* hundredths of the channel's unit.                                      *)
PhysiologicalBounds ==
    [ hr   |-> [min_val |-> 6000, max_val |-> 24000],
      spo2 |-> [min_val |-> 7000, max_val |-> 10000],
      rr   |-> [min_val |-> 1500, max_val |-> 10000],
      temp |-> [min_val |-> 3450, max_val |-> 4100],
      map  |-> [min_val |-> 1200, max_val |-> 7000] ]

(* The weight of the last digit round() keeps: whole numbers for hr, rr   *)
(* and map, one decimal for spo2 and temp.                                *)
MonitorPrecision == [hr |-> 100, spo2 |-> 10, rr |-> 100, temp |-> 10, map |-> 100]

(* What the noise, correlation and artifact steps can leave in a channel  *)
(* before the bounds are applied: below the bound, on it, inside with     *)
(* digits to round, on the upper bound, above it.                         *)
RawLevels ==
    [ hr   |-> <<4800, 6000, 15049, 24000, 25500>>,
      spo2 |-> <<6500, 7000, 9234, 10000, 10400>>,
      rr   |-> <<900, 1500, 4550, 10000, 12000>>,
      temp |-> <<3390, 3450, 3714, 4100, 4230>>,
      map  |-> <<800, 1200, 3849, 7000, 7500>>]

(* hr and rr move together, and spo2, map and temp move together, either  *)
(* with them or against them.                                             *)
RawVitals ==
    { [hr |-> RawLevels.hr[l[1]], rr |-> RawLevels.rr[l[1]], spo2 |-> RawLevels.spo2[l[2]],
       map |-> RawLevels.map[l[2]], temp |-> RawLevels.temp[l[2]]] :
        l \in {k \in (1..Len(RawLevels.hr)) \X (1..Len(RawLevels.hr)) :
                 k[1] = k[2] \/ k[1] + k[2] = Len(RawLevels.hr) + 1} }

(* clamp without its lower limit.                                         *)
clamp_upper_only(value, min_val, max_val) ==
    IF max_val < value THEN max_val ELSE value

(* clamp(value, min_val, max_val) = max(min_val, min(max_val, value))     *)
clamp(value, min_val, max_val) ==
    LET upper == IF max_val < value THEN max_val ELSE value
    IN IF min_val > upper THEN min_val ELSE upper

(* One generate_next_vitals call of the generator of mrn: the clinical    *)
(* state is stepped, and the channels raw are bounded and rounded into    *)
(* the measurement returned.                                              *)
emit_next_vitals(mrn, raw) ==
    /\ generators' = [generators EXCEPT ![mrn] = generate_next_vitals(@)]
    /\ new_vitals' = Some([mrn |-> mrn, raw |-> raw,
                           vitals |-> [v \in Vitals |->
                              RoundTo(clamp(raw[v], PhysiologicalBounds[v].min_val,
                                            PhysiologicalBounds[v].max_val),
                                      MonitorPrecision[v])]])
    /\ UNCHANGED <<minutes, status_reply>>
    /\ UNCHANGED <<alertVars, orchVars, scorerVars, script_generator, startup_done>>

VitalsNext ==
    \/ \E mrn \in TickPatients : \E p \in SepsisProfiles : trigger_patient_sepsis(mrn, mrn, p)
    \/ \E mrn \in TickPatients : reset_simulation_patient(mrn)
    \/ \E mrn \in TickPatients : \E raw \in RawVitals : emit_next_vitals(mrn, raw)
    \/ MinutesPass

VitalsSpec == Init /\ [][VitalsNext]_vars

(* ---------------------- generator of scripts/realistic_vitals_generator *)
script_trigger_sepsis(mrn) ==
    /\ script_generator' = [script_generator EXCEPT ![mrn] =
                              [@ EXCEPT !.state = "DETERIORATING",
                                        !.sepsis_onset_time = Some(datetime_now),
                                        !.time_since_onset = 0,
                                        !.pattern = None]]
    /\ UNCHANGED <<new_vitals, startup_done>>
    /\ UNCHANGED <<alertVars, simVars, orchVars, scorerVars>>

script_reset_to_normal(mrn) ==
    /\ script_generator' = [script_generator EXCEPT ![mrn] =
                              [@ EXCEPT !.state = "STABLE",
                                        !.sepsis_onset_time = None,
                                        !.time_since_onset = 0,
                                        !.pattern = None]]
    /\ UNCHANGED <<new_vitals, startup_done>>
    /\ UNCHANGED <<alertVars, simVars, orchVars, scorerVars>>

(* _apply_sepsis_progression: np.random.choice([fever, hypothermia]) for  *)
(* the temperature target, drawn in the call.                             *)
apply_sepsis_progression(choice) == Some(choice)

(* generate_next_vitals of the script: the elapsed time and the SEPTIC    *)
(* rule as in main.py, then the targets of the state.                     *)
script_generate_next_vitals(mrn, choice) ==
    /\ LET g == script_generator[mrn]
           elapsed == IF g.sepsis_onset_time # None
                      THEN datetime_now - g.sepsis_onset_time[1] ELSE g.time_since_onset
           state == IF g.sepsis_onset_time # None /\ elapsed > SepticAfterMinutes
                    THEN "SEPTIC" ELSE g.state
       IN script_generator' = [script_generator EXCEPT ![mrn] =
            [g EXCEPT !.time_since_onset = elapsed,
                      !.state = state,
                      !.pattern = IF state \in {"DETERIORATING", "SEPTIC"}
                                  THEN apply_sepsis_progression(choice) ELSE None]]
    /\ UNCHANGED <<new_vitals, startup_done>>
    /\ UNCHANGED <<alertVars, simVars, orchVars, scorerVars>>

ScriptNext ==
    \/ \E mrn \in TickPatients : script_trigger_sepsis(mrn)
    \/ \E mrn \in TickPatients : script_reset_to_normal(mrn)
    \/ \E mrn \in TickPatients : \E choice \in SepsisProfiles :
         script_generate_next_vitals(mrn, choice)
    \/ MinutesPass

ScriptSpec == Init /\ [][ScriptNext]_vars

(* A generator as it can be constructed: any clinical state of the enum,  *)
(* with or without an onset on record.                                    *)
GeneratorInputs ==
    [ state             : ClinicalState,
      sepsis_onset_time : {None, Some(0)},
      time_since_onset  : {0},
      sepsis_minutes    : {0},
      sepsis_profile    : {None, Some("fever")} ]

GenInit ==
    /\ now = 0
    /\ alerts = <<>>
    /\ simulation_active = TRUE
    /\ simulation_thread = 0
    /\ threads = [t \in Threads |-> NoThread]
    /\ action_req = None
    /\ response = [code |-> 0, detail |-> ""]
    /\ succession = [b \in TickPatients |-> Idle]
    /\ generators \in [TickPatients -> GeneratorInputs]
    /\ minutes = 0
    /\ status_reply = None
    /\ last_predictions = [mrn \in BabyIds |-> None]
    /\ active_alerts = <<>>
    /\ seconds = 0
    /\ risk_monitor = <<>>
    /\ live_sd = None
    /\ etl_risk = None
    /\ eos_reply = None
    /\ new_vitals = None
    /\ script_generator = [mrn \in TickPatients |-> ScriptVitalGenerator]
    /\ startup_done = FALSE

GenNext ==
    \/ get_simulation_status
    \/ generate_single_reading
    \/ MinutesPass

(* generate_next_vitals as a method of the class, applied tick after tick *)
(* to generators in any clinical state, with no trigger and no reset.     *)
GenSpec == GenInit /\ [][GenNext]_vars /\ WF_vars(generate_single_reading) /\ WF_vars(MinutesPass)

(* ------------------------------------------------- the attentive human *)
(* The most recent alert of a baby, whatever its status; 0 when none.     *)
LatestAlert(baby) ==
    LET S == {i \in AlertIds : alerts[i].baby_id = baby}
    IN IF S = {} THEN 0
       ELSE CHOOSE i \in S : \A j \in S : alerts[j].timestamp <= alerts[i].timestamp

(* The alerts a clinician is shown for a baby: every alert still awaiting *)
(* action, and the baby's most recent alert while it is not CLOSED.       *)
Presented(i) ==
    /\ i \in AlertIds
    /\ alerts[i].alert_status \in OpenStatuses
    /\ \/ alerts[i].alert_status = "PENDING_DOCTOR_ACTION"
       \/ i = LatestAlert(alerts[i].baby_id)

(* The clinician records an action on a presented alert.                  *)
HumanActs(i) ==
    /\ Presented(i)
    /\ \E d \in DoctorIds : \E a \in ActionTypes : \E dd \in DismissDurations :
         log_doctor_action(i, d, a, dd)

(* The clinician closes a presented alert with its outcome, once the      *)
(* action they may have been recording is committed.                      *)
HumanCloses(i) ==
    /\ Presented(i)
    /\ action_req = None
    /\ \E o \in BOOLEAN : log_outcome(i, o)

TickProgress == \E t \in Threads : LoopHead(t) \/ TickCommit(t)

LiveNext ==
    \/ start_background_simulation
    \/ stop_background_simulation
    \/ \E t \in Threads : LoopHead(t)
    \/ \E t \in Threads : \E s \in SeverityScores : TickEntity(t, s)
    \/ \E t \in Threads : TickCommit(t)
    \/ \E t \in Threads : TickException(t)
    \/ \E b \in BabyIds : \E r \in ClassifierRisks : predict_sepsis(b, r)
    \/ \E i \in 1..MaxAlerts : HumanActs(i)
    \/ log_doctor_action_commit
    \/ \E i \in 1..MaxAlerts : HumanCloses(i)
    \/ AdvanceClock

(* The system with a clinician who acts only on presented alerts and who  *)
(* closes every alert that stays presented; the tick thread and a pending *)
(* commit keep running.                                                   *)
LiveSpec ==
    /\ Init
    /\ [][LiveNext]_vars
    /\ \A i \in 1..MaxAlerts : SF_vars(HumanCloses(i))
    /\ WF_vars(log_doctor_action_commit)
    /\ WF_vars(TickProgress)

(* ================================================================ claims *)
OpenAlertsOf(b) == {i \in AlertIds : /\ alerts[i].baby_id = b
                                     /\ alerts[i].alert_status \in OpenStatuses}

(* C1: for every entity at most one alert is in a non-terminal status     *)
(* (PENDING_DOCTOR_ACTION, ACTION_TAKEN or DISMISSED) at any instant.     *)
C1_AtMostOneOpenAlert == \A b \in BabyIds : Cardinality(OpenAlertsOf(b)) <= 1

(* The tick pass of thread t has evaluated baby b and not yet committed.  *)
TickInProgress(t, b) ==
    /\ threads[t].pc \in {"entity", "commit"}
    /\ \E k \in 1..(threads[t].idx - 1) : PatientOrder[k] = b

(* A log_doctor_action request holds a loaded, uncommitted alert of b.    *)
ActionInProgress(b) == action_req # None /\ action_req[1].loaded.baby_id = b

(* C2: operations on the same entity run under one exclusive scope: a     *)
(* tick evaluation of an entity and a recordAction on that entity's alert *)
(* are never both under way.                                              *)
C2_ExclusiveScope ==
    \A b \in BabyIds : \A t \in Threads : ~(TickInProgress(t, b) /\ ActionInProgress(b))

(* C3: when an evaluation that created an alert for an entity is followed *)
(* directly by a second above-threshold evaluation of that entity, the    *)
(* second creates nothing: it finds the PENDING alert of the first.       *)
C3_SuccessiveEvaluationsOneAlert ==
    \A b \in TickPatients :
      succession[b].phase = "second_read" =>
        /\ ~succession[b].created
        /\ ~SessionHas(succession[b].thread, b)
        /\ ExistingAlert(b) # 0
        /\ alerts[ExistingAlert(b)].alert_status = "PENDING_DOCTOR_ACTION"

C3_Witness == \E b \in TickPatients : succession[b].phase = "second_read"

(* The patient thread t is about to evaluate. *)
Mrn(t) == PatientOrder[threads[t].idx]

(* The evaluation step of thread t added a row to its session.            *)
Created(t) == Len(threads'[t].session) = Len(threads[t].session) + 1

(* Thread t evaluates, above the threshold, a patient whose most recent   *)
(* open alert has the given status.                                       *)
EvaluatesOver(t, s, status) ==
    /\ TickEntity(t, s)
    /\ s >= AlertThreshold
    /\ ExistingAlert(Mrn(t)) # 0
    /\ alerts[ExistingAlert(Mrn(t))].alert_status = status

SilenceEnd(e) == alerts[e].action_timestamp[1] + alerts[e].dismiss_duration[1]
ReEscalationTime(e) == alerts[e].action_timestamp[1] + ReEscalationHours

(* C4, as stated: a DISMISSED alert suppresses creation at every          *)
(* evaluation before dismissedAt + dismissDuration, and an above-         *)
(* threshold evaluation at or after that instant opens a PENDING alert.   *)
C4_ReopensAtOrAfter ==
    [][\A t \in Threads : \A s \in SeverityScores :
         EvaluatesOver(t, s, "DISMISSED") =>
           (Created(t) <=> utcnow >= SilenceEnd(ExistingAlert(Mrn(t))))]_vars

(* C4, amended: while a DISMISSED alert is the entity's most recent open  *)
(* alert, an above-threshold evaluation adds a PENDING alert exactly when *)
(* it runs strictly after dismissedAt + dismissDuration; at that instant  *)
(* itself, and before it, creation is suppressed.                         *)
C4_ReopensStrictlyAfter ==
    [][\A t \in Threads : \A s \in SeverityScores :
         EvaluatesOver(t, s, "DISMISSED") =>
           /\ Created(t) <=> utcnow > SilenceEnd(ExistingAlert(Mrn(t)))
           /\ Created(t) =>
                threads'[t].session[Len(threads'[t].session)].alert_status
                  = "PENDING_DOCTOR_ACTION"]_vars

(* An uncommitted tick row for a patient whose latest committed open      *)
(* alert is DISMISSED with its silence run out before the row's time.     *)
C4_Witness ==
    \E t \in Threads : \E k \in 1..Len(threads[t].session) :
      LET r == threads[t].session[k]
          e == ExistingAlert(r.baby_id)
      IN /\ e # 0
         /\ alerts[e].alert_status = "DISMISSED"
         /\ SilenceEnd(e) < r.timestamp

ReEscalationFires(t, s) ==
    /\ EvaluatesOver(t, s, "ACTION_TAKEN")
    /\ utcnow > ReEscalationTime(ExistingAlert(Mrn(t)))

C7_ClosedIsTerminal ==
    [][\A i \in AlertIds :
         alerts[i].alert_status = "CLOSED" => alerts'[i].alert_status = "CLOSED"]_vars

InvalidTransition ==
    [code |-> 500,
     detail |-> "Error logging action: 400: Action cannot be taken on this alert."]

C9_DismissDurationDecidesStatus ==
    [][(/\ log_doctor_action_commit
        /\ alerts[action_req[1].alert_id] = action_req[1].loaded) =>
          LET r == action_req[1]
              after == alerts'[r.alert_id]
          IN IF r.dismiss_duration # None
             THEN /\ after.alert_status = "DISMISSED"
                  /\ after.dismiss_duration = r.dismiss_duration
             ELSE after.alert_status = "ACTION_TAKEN"]_vars

(* C10: log_outcome on an alert that is already CLOSED is rejected with   *)
(* an error and changes nothing of the alert (outcome, outcome timestamp, *)
(* reward).                                                               *)
C10_OutcomeOnClosedRejected ==
    [][\A i \in 0..MaxAlerts : \A o \in BOOLEAN :
         (/\ log_outcome(i, o)
          /\ i \in AlertIds
          /\ alerts[i].alert_status = "CLOSED") =>
           /\ response'.code # 200
           /\ alerts'[i] = alerts[i]]_vars

(* C11: log_outcome with an alert id that does not exist changes no alert *)
(* and fails with an error the caller can tell apart from the handler's   *)
(* other failures: its status differs from that of a database failure.    *)
C11_UnknownIdToldApart ==
    [][\A i \in 0..MaxAlerts : \A o \in BOOLEAN :
         (log_outcome(i, o) /\ i \notin AlertIds) =>
           /\ alerts' = alerts
           /\ response'.code # 200
           /\ response'.code # DatabaseFailure.code]_vars

(* C12: log_outcome sets the reward from the alert's stored risk score    *)
(* and the confirmed outcome: +1 when "risk above 0.75" and "confirmed"   *)
(* agree, -1 when they differ; the risk score itself is left as it was.   *)
C12_RewardIsAgreement ==
    [][\A i \in 0..MaxAlerts : \A o \in BOOLEAN :
         (log_outcome(i, o) /\ i \in AlertIds) =>
           LET high == alerts[i].model_risk_score > HighRiskThreshold IN
           /\ alerts'[i].reward_signal = IF high <=> o THEN Some(1) ELSE Some(-1)
           /\ alerts'[i].model_risk_score = alerts[i].model_risk_score
           /\ alerts'[i].sepsis_confirmed = Some(o)]_vars

(* Closed alerts of both kinds: one rewarded for agreement and one        *)
(* penalised for disagreement.                                            *)
C12_Witness ==
    \E i, j \in AlertIds :
      /\ alerts[i].alert_status = "CLOSED" /\ alerts[i].reward_signal = Some(1)
      /\ alerts[j].alert_status = "CLOSED" /\ alerts[j].reward_signal = Some(-1)

RiskSnapshot(a) == <<a.baby_id, a.timestamp, a.model_risk_score, a.onset_window_hrs>>

(* C14: the risk snapshot of an existing alert (baby_id, timestamp,       *)
(* model_risk_score, onset_window_hrs) is never changed by any step.      *)
C14_SnapshotImmutable ==
    [][\A i \in AlertIds : RiskSnapshot(alerts'[i]) = RiskSnapshot(alerts[i])]_vars

(* An alert that has been acted on and closed, and a later evaluation of  *)
(* its patient has committed another alert.                               *)
C14_Witness ==
    \E i, j \in AlertIds :
      /\ i < j
      /\ alerts[i].baby_id = alerts[j].baby_id
      /\ alerts[i].doctor_id # None
      /\ alerts[i].outcome_timestamp # None
      /\ alerts[j].model_risk_score <= HighRiskThreshold

IsClosed(i) == i \in AlertIds /\ alerts[i].alert_status = "CLOSED"

(* The clock of the model has run out while alert i is still presented.   *)
HorizonReached(i) == now = MaxTime /\ Presented(i)

(* C13: with a clinician who eventually closes whichever alert is         *)
(* presented, every alert is eventually CLOSED (or is still presented     *)
(* when the modelled time runs out), also an alert that was dismissed or  *)
(* acted on and then followed by a newer alert of the same baby.          *)
C13_EveryAlertEventuallyClosed ==
    \A i \in 1..MaxAlerts :
      (i \in AlertIds) ~> (IsClosed(i) \/ HorizonReached(i))

(* The transitions of the clinical state machine, SEPTIC being its acute  *)
(* state; reset() may lead from any state to STABLE.                      *)
StateMachine ==
    { <<"STABLE", "DETERIORATING">>, <<"DETERIORATING", "STABLE">>,
      <<"DETERIORATING", "SEPTIC">>, <<"SEPTIC", "RECOVERING">>,
      <<"RECOVERING", "STABLE">> }

(* C15: the clinical state of a patient changes only along the            *)
(* transitions of the state machine or, by reset, to STABLE; a trigger    *)
(* resets the elapsed-time counters.                                      *)
C15_OnlyStateMachineTransitions ==
    [][/\ \A mrn \in TickPatients :
            LET from == generators[mrn].state
                to   == generators'[mrn].state
            IN from = to \/ <<from, to>> \in StateMachine \/ to = "STABLE"
       /\ \A mrn \in TickPatients : \A r \in TickPatients : \A p \in SepsisProfiles :
            trigger_patient_sepsis(mrn, r, p) =>
              /\ generators'[mrn].time_since_onset = 0
              /\ generators'[mrn].sepsis_minutes = 0]_vars

JustTriggered(g) == \E p \in SepsisProfiles : g = trigger_sepsis(g, p)
JustReset(g) == g = reset_to_normal(g)

(* C17: trigger, reset and the status query are idempotent: applied to a  *)
(* patient the same operation has just been applied to, each leaves the   *)
(* clinical state (state, elapsed-time counters, sub-profile) as it is.   *)
C17_ControlsIdempotent ==
    [][/\ \A mrn \in TickPatients : \A r \in TickPatients : \A p \in SepsisProfiles :
            (trigger_patient_sepsis(mrn, r, p) /\ JustTriggered(generators[mrn])) =>
              generators' = generators
       /\ \A mrn \in TickPatients :
            (reset_simulation_patient(mrn) /\ JustReset(generators[mrn])) =>
              generators' = generators
       /\ get_simulation_status => generators' = generators]_vars

(* The thread is inside a pass over the patients.                         *)
InBatch(t) == threads[t].pc \in {"entity", "commit"}

(* C18: once simulation_active is down, a tick thread inside a pass goes  *)
(* on with that pass, a thread at the loop head ends instead of starting  *)
(* another pass, and a thread ends only between passes, with nothing      *)
(* uncommitted in its session. The stop itself touches no thread and no   *)
(* row.                                                                   *)
C18_StopFinishesBatchThenHalts ==
    [][/\ stop_background_simulation => (threads' = threads /\ alerts' = alerts)
       /\ \A t \in Threads :
            /\ (~simulation_active /\ InBatch(t) /\ threads'[t] # threads[t]) =>
                 threads'[t].pc \in {"entity", "commit", "head"}
            /\ (~simulation_active /\ threads[t].pc = "head" /\ threads'[t] # threads[t]) =>
                 threads'[t] = NoThread
            /\ (threads[t] # NoThread /\ threads'[t] = NoThread) =>
                 (threads[t].pc = "head" /\ threads[t].session = <<>>)]_vars

(* The stop arrived while a pass was under way, and the pass has come to  *)
(* its commit with a row to write.                                        *)
C18_Witness ==
    \E t \in Threads :
      ~simulation_active /\ threads[t].pc = "commit" /\ threads[t].session # <<>>

(* C19: when the processing of one patient fails inside a pass, the pass  *)
(* goes on with the next patient and keeps the rows already prepared.     *)
C19_FailureSparesTheRest ==
    [][\A t \in Threads :
         (TickException(t) /\ threads[t].pc = "entity") =>
           /\ threads'[t].session = threads[t].session
           /\ threads'[t].pc \in {"entity", "commit"}
           /\ threads'[t].idx = threads[t].idx + 1]_vars

(* C20: when the call to the prediction service fails or is answered with *)
(* an error, the critical row still yields an assessment of its patient:  *)
(* an entry for that patient is appended to the alerts.                   *)
C20_FallbackAssessment ==
    [][\A row \in StreamRows : \A reply \in ApiReplies :
         ( /\ ml_prediction_handler(row, reply)
           /\ should_trigger_prediction(row.mrn)
           /\ call_ml_prediction_api(row, reply) = None ) =>
           /\ Len(active_alerts') = Len(active_alerts) + 1
           /\ active_alerts'[Len(active_alerts')].mrn = row.mrn]_vars

(* C21: a call of get_live_statistics that finds fewer than two rows in   *)
(* the window, none included, or that fails on the database, returns the  *)
(* default standard deviation of every channel, none of them zero.        *)
C21_DefaultsBelowTwoSamples ==
    (live_sd # None /\ live_sd[1].n_rows < 2) =>
      /\ live_sd[1].sd = DefaultSd
      /\ \A v \in Vitals : live_sd[1].sd[v] > 0

(* The statistics were asked with exactly one row in the window.          *)
C21_Witness == live_sd # None /\ live_sd[1].db_ok /\ live_sd[1].n_rows = 1

(* C22: with the other channels and the standard deviations as they were  *)
(* in the call, a reading of one channel at least as far from the         *)
(* channel's mean gives a risk score at least as high.                    *)
C22_MonotoneInDeviation ==
    etl_risk # None =>
      LET call == etl_risk[1]
          dist(x, v) == IF x >= RISK_PARAMS[v].mu THEN x - RISK_PARAMS[v].mu
                        ELSE RISK_PARAMS[v].mu - x
      IN \A v \in Vitals : \A other \in ScoreInputs :
           ( /\ \A u \in Vitals \ {v} : other[u] = call.vitals[u]
             /\ dist(other[v], v) >= dist(call.vitals[v], v) ) =>
             RiskTotal(other, call.live_sd) >= call.risk_total

(* A score was computed from live statistics other than the defaults, for *)
(* a reading below the mean temperature.                                   *)
C22_Witness ==
    /\ etl_risk # None
    /\ etl_risk[1].live_sd # DefaultSd
    /\ etl_risk[1].vitals.temp < RISK_PARAMS.temp.mu
    /\ etl_risk[1].risk_total > 0

(* C23: every EOS risk score, of either calculator and also when the      *)
(* calculation raises, lies between 0.5 and 50.                           *)
C23_EosScoreInRange ==
    eos_reply # None => (baseline_risk <= eos_reply[1].risk /\ eos_reply[1].risk <= MaxRisk)

(* A score that the limit of 50 cut down, and one above the baseline      *)
(* that it left alone.                                                    *)
C23_Witness ==
    /\ eos_reply # None
    /\ eos_reply[1].fn = "calculate_eos_risk_production"
    /\ eos_reply[1].risk = MaxRisk
    /\ total_risk(baseline_risk, risk_factors_production(eos_reply[1].input)) > MaxRisk

(* The risk conditions an input of calculate_eos_risk presents.           *)
ConditionsOf(d) ==
    {c \in {"gestational_age", "maternal_fever", "prolonged_rom", "gbs", "clinical_exam"} :
       \/ c = "gestational_age" /\ ga_decimal(d) < 39 * DaysPerWeek
       \/ c = "maternal_fever" /\ d.temp_celsius >= 380
       \/ c = "prolonged_rom" /\ d.rom_hours > 18
       \/ c = "gbs" /\ d.gbs_status \in {"positive", "unknown"}
       \/ c = "clinical_exam" /\ d.clinical_exam = "abnormal"}

(* The inputs a condition is read from.                                   *)
InputsOf(c) ==
    IF c = "gestational_age" THEN {"ga_weeks", "ga_days"}
    ELSE IF c = "maternal_fever" THEN {"temp_celsius"}
    ELSE IF c = "prolonged_rom" THEN {"rom_hours"}
    ELSE IF c = "gbs" THEN {"gbs_status", "antibiotic_type"}
    ELSE {"clinical_exam"}

(* C27: an input that presents one risk condition more, and is otherwise  *)
(* the same, has a strictly higher score before the limit of 50.          *)
C27_EachConditionRaisesScore ==
    (eos_reply # None /\ eos_reply[1].fn = "calculate_eos_risk"
       /\ eos_reply[1].input.gbs_status # NotAString) =>
      LET d == eos_reply[1].input
      IN \A more \in EosInputs : \A c \in ConditionsOf(more) \ ConditionsOf(d) :
           ( /\ more.gbs_status # NotAString
             /\ \A f \in DOMAIN d \ InputsOf(c) : more[f] = d[f] ) =>
             total_risk(baseline_risk, risk_factors(more))
               > total_risk(baseline_risk, risk_factors(d))

(* Minutes since trigger_sepsis put the generator in DETERIORATING.       *)
ElapsedSinceOnset(g) == datetime_now - g.sepsis_onset_time[1]

(* C24: a tick that finds a DETERIORATING generator more than 45 minutes  *)
(* after its onset leaves it SEPTIC, and a generator becomes SEPTIC only  *)
(* by such a tick.                                                        *)
C24_SepticOnlyPastThreshold ==
    [][\A mrn \in TickPatients :
         LET g == generators[mrn]
         IN /\ ( /\ generate_single_reading
                 /\ g.state = "DETERIORATING"
                 /\ ElapsedSinceOnset(g) > SepticAfterMinutes )
                 => generators'[mrn].state = "SEPTIC"
            /\ (g.state # "SEPTIC" /\ generators'[mrn].state = "SEPTIC")
                 => ( /\ generate_single_reading
                      /\ g.state = "DETERIORATING"
                      /\ ElapsedSinceOnset(g) > SepticAfterMinutes )]_vars

(* One generator ticked into SEPTIC an hour after its onset while another *)
(* was ticked at exactly 45 minutes and is still DETERIORATING.           *)
C24_Witness ==
    \E a, b \in TickPatients :
       /\ generators[a].state = "SEPTIC"
       /\ generators[a].time_since_onset > SepticAfterMinutes
       /\ generators[b].state = "DETERIORATING"
       /\ generators[b].time_since_onset = SepticAfterMinutes

(* C25: two successive ticks of one deterioration episode use the same    *)
(* fever-or-hypothermia pattern.                                          *)
C25_PatternFixedForEpisode ==
    [][\A mrn \in TickPatients :
         (script_generator[mrn].pattern # None /\ script_generator'[mrn].pattern # None)
           => script_generator'[mrn].pattern = script_generator[mrn].pattern]_vars

(* C26: every measurement a tick returns has heart rate in 60-240, SpO2   *)
(* in 70-100, respiratory rate in 15-100, temperature in 34.5-41.0 and    *)
(* MAP in 12-70, whatever the clinical state.                             *)
C26_MeasurementsWithinBounds ==
    new_vitals # None =>
      LET m == new_vitals[1].vitals
      IN /\ 6000 <= m.hr /\ m.hr <= 24000
         /\ 7000 <= m.spo2 /\ m.spo2 <= 10000
         /\ 1500 <= m.rr /\ m.rr <= 10000
         /\ 3450 <= m.temp /\ m.temp <= 4100
         /\ 1200 <= m.map /\ m.map <= 7000

(* A SEPTIC generator whose tick computed a heart rate above 240 and a    *)
(* MAP and a temperature below their lower bounds.                        *)
C26_Witness ==
    /\ new_vitals # None
    /\ generators[new_vitals[1].mrn].state = "SEPTIC"
    /\ new_vitals[1].raw.hr > 24000 /\ new_vitals[1].vitals.hr = 24000
    /\ new_vitals[1].raw.map < 1200 /\ new_vitals[1].vitals.map = 1200
    /\ new_vitals[1].raw.temp < 3450 /\ new_vitals[1].vitals.temp = 3450

(* C28: when the startup event has run, a background tick thread exists. *)
C28_StartupStartsTickLoop ==
    [][startup_event => \E t \in DriverThreads : threads'[t].pc # "none"]_vars

(* The tick threads that have not left their loop.                        *)
LiveThreads == {t \in DOMAIN threads : threads[t].pc # "none"}

(* C29: at no time is there more than one background tick thread.         *)
C29_AtMostOneTickThread == Cardinality(LiveThreads) <= 1

(* C30: an alert created at or above the tick's alert threshold and       *)
(* closed with a confirmed outcome carries the positive reward.           *)
C30_TickAlertConfirmedIsRewarded ==
    \A i \in AlertIds :
       ( /\ alerts[i].model_risk_score >= ModelRiskScore(AlertThreshold)
         /\ alerts[i].sepsis_confirmed = Some(TRUE) )
         => alerts[i].reward_signal = Some(1)
====
